---- MODULE Spec2Model ----
(***************************************************************************)
(* Model of the gated, streaming core of llama_cpp_python/server/app.py:   *)
(* the two-lock access gate (get_llama_proxy), the completion and chat     *)
(* completion handlers that enter it through an ExitStack, and the         *)
(* streaming publisher (get_event_publisher) that bridges the engine's     *)
(* iterator to the bounded channel of the event-source response.           *)
(*                                                                         *)
(* Worker-thread calls and event-loop segments are separate actions: a     *)
(* lock operation, an engine call and a channel operation are each one     *)
(* atomic step.  Code that runs between two awaits of one coroutine is one *)
(* step, since nothing else runs on the event loop in between.             *)
(***************************************************************************)
EXTENDS Naturals, Sequences, FiniteSets

\* Number of concurrent requests.
NumReqs == 2

\* Most chunks the engine sequence of request 1 holds: enough to fill the
\* channel and block the publisher behind it.
MaxChunks == 11

\* Most chunks the engine sequence of any other request holds.
ShortChunks == 1

\* anyio.create_memory_object_stream(10)
ChanCap == 10

\* Longest configured model list (_model_settings).
MaxModels == 2

Reqs == 1..NumReqs

\* Bound on the length of the engine sequence of request r.
Chunks(r) == IF r = 1 THEN MaxChunks ELSE ShortChunks

\* "/v1/completions" and "/v1/chat/completions"
Paths == {"completion", "chat"}

\* _server_settings: unset, or set with interrupt_requests on or off.
SettingsValues == {"None", "interrupt", "plain"}

\* Model names and aliases of the configuration, and None (request.model
\* not given, ModelSettings.model_alias not set).
Names == {"a", "b"}
NoModel == "None"

\* API keys and bearer credentials, and None (no key configured, no
\* Authorization header).
Keys == {"k1", "k2", "k3"}
NoKey == "None"

\* Keys of a logit_bias map given as token strings, the ids the engine's
\* tokenizer knows, and bias scores.
TokenStrings == {"x", "y"}
TokenIds == {1, 2}
Scores == {5, 7}

\* Most entries of a logit_bias map, and most ids one key tokenizes to.
MaxBias == 2
MaxTokens == 2

\* body.logit_bias: a dict, here the sequence of its items in dict order
\* (keys are distinct), or None.
NoBias == <<[token |-> "None", score |-> 0]>>
BiasMaps ==
  {m \in UNION {[1..n -> [token : TokenStrings, score : Scores]] :
                  n \in 0..MaxBias} :
     \A i, j \in 1..Len(m) : i # j => m[i].token # m[j].token}

\* llama.tokenize(token, add_bos=False, special=True) of every key: the
\* engine is opaque, any table of id sequences may be the tokenizer.
Tokenizers ==
  [TokenStrings -> UNION {[1..n -> TokenIds] : n \in 0..MaxTokens}]
DefaultTokenizer == [t \in TokenStrings |-> <<1>>]

\* The routes of the router.
InfoRoute == "/v1/internal/model/info"
Routes ==
  {"/v1/completions", "/v1/engines/copilot-codex/completions",
   "/v1/embeddings", "/v1/chat/completions", "/v1/models",
   "/extras/tokenize", "/extras/tokenize/count", "/extras/detokenize",
   InfoRoute}

\* ModelSettings, reduced to the fields create_embedding reads.
Entries ==
  [model : Names, model_alias : Names \cup {NoModel},
   embedding : BOOLEAN, is_hf_embedding_model : BOOLEAN]

\* Configured model lists: at least one model (create_app), at most MaxModels.
ModelLists == UNION {[1..n -> Entries] : n \in 1..MaxModels}

\* The list of a server started without a config file: one model, the
\* defaults of ModelSettings.
DefaultModels ==
  <<[model |-> "a", model_alias |-> NoModel,
     embedding |-> FALSE, is_hf_embedding_model |-> FALSE]>>

VARIABLES
  llama_proxy_set,   \* _llama_proxy is not None
  server_settings,   \* _server_settings
  llama_outer_lock,  \* llama_outer_lock.locked()
  llama_inner_lock,  \* llama_inner_lock.locked()
  pc,                \* position of each request's handler / publisher
  gen,               \* position of each request's get_llama_proxy generator
  exit_stack,        \* the request's ExitStack still holds the gate context
  pulled,            \* chunks the engine has produced for the request
  first_response,    \* the chunk the handler pulled (0: none)
  wrapper,           \* position of the handler's iterator() generator
  chunk,             \* loop variable of the publisher
  inner_send_chan,   \* frames buffered in the memory object stream
  sent,              \* every frame the publisher has put on the channel
  disconnected,      \* the server has seen http.disconnect for the request
  on_complete_calls, \* times the publisher has invoked on_complete
  path,              \* how the publisher's loop ended
  releases,          \* times the request's generator released the inner lock
  contender,         \* first request that called acquire during this stream
  model_settings,    \* _model_settings
  hf_embedding_model,\* keys of the dict hf_embedding_model
  loads,             \* SentenceTransformer objects constructed, per key
  request_model,     \* request.model of each embedding request
  setting,           \* create_embedding: index of the entry selected (0: None)
  api_key,           \* settings.api_key
  route,             \* path of the last request received
  authorization,     \* bearer credentials of that request
  response,          \* what the dependencies of its route answered
  shutting_down,     \* the process has been told to stop
  tokenizer,         \* llama.tokenize, as a table
  logit_bias,        \* body.logit_bias
  logit_bias_type,   \* body.logit_bias_type
  kwargs_logit_bias  \* kwargs["logit_bias"] once the handler has set it

vars == <<llama_proxy_set, server_settings, llama_outer_lock, llama_inner_lock,
          pc, gen, exit_stack, pulled, first_response, wrapper,
          chunk, inner_send_chan, sent, disconnected, on_complete_calls, path,
          releases, contender, model_settings, hf_embedding_model, loads,
          request_model, setting, api_key, route, authorization, response,
          shutting_down, tokenizer, logit_bias, logit_bias_type,
          kwargs_logit_bias>>

gate == <<llama_outer_lock, llama_inner_lock, gen, exit_stack, releases>>
engine == <<pulled, first_response, wrapper, chunk>>
stream == <<inner_send_chan, sent, disconnected, on_complete_calls, path>>
embed == <<model_settings, hf_embedding_model, loads, request_model, setting>>
auth == <<api_key, route, authorization, response>>
bias == <<tokenizer, logit_bias, logit_bias_type, kwargs_logit_bias>>
config ==
  <<llama_proxy_set, server_settings, embed, auth, shutting_down, bias>>

\* dict(data=json.dumps(chunk)) and dict(data="[DONE]")
ChunkFrame(c) == [data |-> "json", chunk |-> c]
DoneFrame == [data |-> "[DONE]", chunk |-> 0]

\* get_event_publisher: interrupt_requests
interrupt_requests == server_settings = "interrupt"

HoldsOuter(r) == gen[r] \in {"L82", "L84"}
HoldsInner(r) == gen[r] \in {"L84", "L86"}

\* The publisher's loop is running and the request still holds the gate.
Streaming(r) == pc[r] \in {"pulling", "pub_send", "pub_check"} /\ gen[r] = "L86"

\* The step request r is at runs on a worker thread: enter_context of the
\* gate, generate and the first pull (run_in_threadpool), the pulls of the
\* publisher (iterate_in_threadpool).  Everything else of the handlers and
\* of the publisher runs on the event loop.
OnWorker(r) == pc[r] \in {"acquire", "generate", "first", "pulling"}

Init ==
  /\ llama_proxy_set \in BOOLEAN
  /\ server_settings \in SettingsValues
  /\ llama_outer_lock = FALSE
  /\ llama_inner_lock = FALSE
  /\ pc = [r \in Reqs |-> "idle"]
  /\ gen = [r \in Reqs |-> "new"]
  /\ exit_stack = [r \in Reqs |-> FALSE]
  /\ pulled = [r \in Reqs |-> 0]
  /\ first_response = [r \in Reqs |-> 0]
  /\ wrapper = [r \in Reqs |-> "none"]
  /\ chunk = [r \in Reqs |-> 0]
  /\ inner_send_chan = [r \in Reqs |-> <<>>]
  /\ sent = [r \in Reqs |-> <<>>]
  /\ disconnected = [r \in Reqs |-> FALSE]
  /\ on_complete_calls = [r \in Reqs |-> 0]
  /\ path = [r \in Reqs |-> "none"]
  /\ releases = [r \in Reqs |-> 0]
  /\ contender = [r \in Reqs |-> 0]
  /\ model_settings = DefaultModels
  /\ hf_embedding_model = {}
  /\ loads = [k \in Names |-> 0]
  /\ request_model = [r \in Reqs |-> NoModel]
  /\ setting = [r \in Reqs |-> 0]
  /\ api_key = NoKey
  /\ route = "none"
  /\ authorization = NoKey
  /\ response = "none"
  /\ shutting_down = FALSE
  /\ tokenizer = DefaultTokenizer
  /\ logit_bias = NoBias
  /\ logit_bias_type = "input_ids"
  /\ kwargs_logit_bias = [kind |-> "unset"]

----------------------------------------------------------------------------
(* The access gate: get_llama_proxy, run as a context manager on a worker  *)
(* thread by exit_stack.enter_context.                                     *)

\* A request reaches its handler, which calls enter_context on a worker
\* thread.  Requests are interchangeable, so they arrive in index order.
Arrive(r) ==
  /\ pc[r] = "idle"
  /\ \A q \in DOMAIN pc : q < r => pc[q] # "idle"
  /\ pc' = [pc EXCEPT ![r] = "acquire"]
  /\ gen' = [gen EXCEPT ![r] = "L79"]
  /\ contender' = [a \in DOMAIN contender |->
       IF Streaming(a) /\ contender[a] = 0 THEN r ELSE contender[a]]
  /\ UNCHANGED <<llama_outer_lock, llama_inner_lock, exit_stack, releases,
                 engine, stream, config>>

OuterAcquire_NoBlock(r) ==
  /\ gen[r] = "L79"
  /\ llama_outer_lock' = TRUE
  /\ gen' = [gen EXCEPT ![r] = "L82"]
  /\ UNCHANGED <<llama_inner_lock, exit_stack, releases, pc, engine, stream,
                 config, contender>>

\* llama_outer_lock.acquire()
OuterAcquire(r) ==
  /\ gen[r] = "L79"
  /\ ~llama_outer_lock
  /\ llama_outer_lock' = TRUE
  /\ gen' = [gen EXCEPT ![r] = "L82"]
  /\ UNCHANGED <<llama_inner_lock, exit_stack, releases, pc, engine, stream,
                 config, contender>>

InnerAcquire_NoBlock(r) ==
  /\ gen[r] = "L82"
  /\ llama_inner_lock' = TRUE
  /\ gen' = [gen EXCEPT ![r] = "L84"]
  /\ UNCHANGED <<llama_outer_lock, exit_stack, releases, pc, engine, stream,
                 config, contender>>

\* llama_inner_lock.acquire(), holding the outer lock
InnerAcquire(r) ==
  /\ gen[r] = "L82"
  /\ ~llama_inner_lock
  /\ llama_inner_lock' = TRUE
  /\ gen' = [gen EXCEPT ![r] = "L84"]
  /\ UNCHANGED <<llama_outer_lock, exit_stack, releases, pc, engine, stream,
                 config, contender>>

OuterRelease_Missing(r) ==
  /\ gen[r] = "L84"
  /\ gen' = [gen EXCEPT ![r] = "L86"]
  /\ exit_stack' = [exit_stack EXCEPT ![r] = TRUE]
  /\ pc' = [pc EXCEPT ![r] = "entered"]
  /\ UNCHANGED <<llama_outer_lock, llama_inner_lock, releases, engine, stream,
                 config, contender>>

\* llama_outer_lock.release(); yield _llama_proxy: enter_context registers
\* the generator's exit on the stack and returns the registry to the handler.
OuterRelease(r) ==
  /\ gen[r] = "L84"
  /\ llama_outer_lock' = FALSE
  /\ gen' = [gen EXCEPT ![r] = "L86"]
  /\ exit_stack' = [exit_stack EXCEPT ![r] = TRUE]
  /\ pc' = [pc EXCEPT ![r] = "entered"]
  /\ UNCHANGED <<llama_inner_lock, releases, engine, stream, config,
                 contender>>

Close_NoRelease(r) ==
  IF exit_stack[r]
  THEN /\ exit_stack' = [exit_stack EXCEPT ![r] = FALSE]
       /\ gen' = [gen EXCEPT ![r] = "end"]
       /\ releases' = [releases EXCEPT ![r] = @ + 1]
       /\ UNCHANGED <<llama_outer_lock, llama_inner_lock>>
  ELSE UNCHANGED gate

Close_Unguarded(r) ==
  /\ exit_stack' = [exit_stack EXCEPT ![r] = FALSE]
  /\ gen' = [gen EXCEPT ![r] = "end"]
  /\ llama_inner_lock' = FALSE
  /\ releases' = [releases EXCEPT ![r] = @ + 1]
  /\ UNCHANGED llama_outer_lock

\* exit_stack.close(): pops the gate context if it is still on the stack and
\* resumes the generator, whose finally runs llama_inner_lock.release(); a
\* stack already closed has nothing to run.
Close(r) ==
  IF exit_stack[r]
  THEN /\ exit_stack' = [exit_stack EXCEPT ![r] = FALSE]
       /\ gen' = [gen EXCEPT ![r] = "end"]
       /\ llama_inner_lock' = FALSE
       /\ releases' = [releases EXCEPT ![r] = @ + 1]
       /\ UNCHANGED llama_outer_lock
  ELSE UNCHANGED gate

----------------------------------------------------------------------------
(* The handlers create_completion and create_chat_completion.  They differ *)
(* only in the non-streaming return; each input of the request (stream,    *)
(* the endpoint) is drawn where the handler first depends on it.           *)

\* if llama_proxy is None: raise HTTPException(503)
CheckProxy(r) ==
  /\ pc[r] = "entered"
  /\ pc' = [pc EXCEPT ![r] = IF llama_proxy_set THEN "resolve" ELSE "failed"]
  /\ UNCHANGED <<gate, engine, stream, config, contender>>

\* llama = llama_proxy(body.model): resolves (and loads) the model, or raises
Resolve(r) ==
  /\ pc[r] = "resolve"
  /\ \E ok \in BOOLEAN :
       pc' = [pc EXCEPT ![r] = IF ok THEN "shape" ELSE "failed"]
  /\ UNCHANGED <<gate, engine, stream, config, contender>>

\* logit-bias tokenisation, LlamaGrammar.from_string, min_tokens processor:
\* each may raise
Shape(r) ==
  /\ pc[r] = "shape"
  /\ \E ok \in BOOLEAN :
       pc' = [pc EXCEPT ![r] = IF ok THEN "generate" ELSE "failed"]
  /\ UNCHANGED <<gate, engine, stream, config, contender>>

\* await run_in_threadpool(llama, **kwargs): an iterator when body.stream is
\* set, a completion otherwise, or an engine failure
Generate(r) ==
  /\ pc[r] = "generate"
  /\ \E next \in {"first", "return", "failed"} :
       pc' = [pc EXCEPT ![r] = next]
  /\ UNCHANGED <<gate, engine, stream, config, contender>>

\* first_response = await run_in_threadpool(next, iterator_or_completion)
FirstPull(r) ==
  /\ pc[r] = "first"
  /\ \/ /\ pulled' = [pulled EXCEPT ![r] = @ + 1]
        /\ first_response' = [first_response EXCEPT ![r] = pulled[r] + 1]
        /\ pc' = [pc EXCEPT ![r] = "respond"]
     \/ /\ pc' = [pc EXCEPT ![r] = "failed"]
        /\ UNCHANGED <<pulled, first_response>>
  /\ UNCHANGED <<gate, wrapper, chunk, stream, config, contender>>

\* The streaming branch: iterator() is created (not yet started), the
\* channel is created and the EventSourceResponse is returned; the response
\* starts get_event_publisher, which begins its first pull on a worker.
Respond(r) ==
  /\ pc[r] = "respond"
  /\ wrapper' = [wrapper EXCEPT ![r] = "start"]
  /\ pc' = [pc EXCEPT ![r] = "pulling"]
  /\ UNCHANGED <<gate, pulled, first_response, chunk, stream, config,
                 contender>>

\* The non-streaming branch: create_chat_completion closes the exit stack
\* and returns; create_completion returns.
Return(r) ==
  /\ pc[r] = "return"
  /\ \E endpoint \in Paths :
       /\ IF endpoint = "chat" THEN Close(r) ELSE UNCHANGED gate
       /\ pc' = [pc EXCEPT ![r] = "returned_" \o endpoint]
  /\ UNCHANGED <<engine, stream, config, contender>>

\* The handler has returned or raised with the gate context still on its
\* exit stack.  Nothing in the program closes it; the interpreter may
\* finalise the unreachable generator at some later time, which runs its
\* finally (llama_inner_lock.release()), or may never do so.
Finalize(r) ==
  /\ pc[r] \in {"returned_completion", "returned_chat", "failed"}
  /\ exit_stack[r]
  /\ Close(r)
  /\ UNCHANGED <<pc, engine, stream, config, contender>>

----------------------------------------------------------------------------
(* The handler's iterator() generator, pulled one item at a time on a      *)
(* worker thread by iterate_in_threadpool.                                 *)

PullFirst_ClosesEarly(r) ==
  /\ pc[r] = "pulling"
  /\ wrapper[r] = "start"
  /\ chunk' = [chunk EXCEPT ![r] = first_response[r]]
  /\ wrapper' = [wrapper EXCEPT ![r] = "rest"]
  /\ Close(r)
  /\ pc' = [pc EXCEPT ![r] = "pub_send"]
  /\ UNCHANGED <<pulled, first_response, stream, config, contender>>

PullFirst_SkipsFirst(r) ==
  /\ pc[r] = "pulling"
  /\ wrapper[r] = "start"
  /\ wrapper' = [wrapper EXCEPT ![r] = "rest"]
  /\ UNCHANGED <<pc, gate, pulled, first_response, chunk, stream, config,
                 contender>>

\* yield first_response
PullFirst(r) ==
  /\ pc[r] = "pulling"
  /\ wrapper[r] = "start"
  /\ chunk' = [chunk EXCEPT ![r] = first_response[r]]
  /\ wrapper' = [wrapper EXCEPT ![r] = "rest"]
  /\ pc' = [pc EXCEPT ![r] = "pub_send"]
  /\ UNCHANGED <<gate, pulled, first_response, stream, config, contender>>

\* yield from iterator_or_completion: the engine produces the next chunk
PullNext(r) ==
  /\ pc[r] = "pulling"
  /\ wrapper[r] = "rest"
  /\ pulled[r] < Chunks(r)
  /\ pulled' = [pulled EXCEPT ![r] = @ + 1]
  /\ chunk' = [chunk EXCEPT ![r] = pulled[r] + 1]
  /\ pc' = [pc EXCEPT ![r] = "pub_send"]
  /\ UNCHANGED <<gate, first_response, wrapper, stream, config, contender>>

\* yield from iterator_or_completion ends (the engine's sequence is
\* exhausted); exit_stack.close(); the loop of the publisher ends
PullExhausted(r) ==
  /\ pc[r] = "pulling"
  /\ wrapper[r] = "rest"
  /\ wrapper' = [wrapper EXCEPT ![r] = "done"]
  /\ Close(r)
  /\ path' = [path EXCEPT ![r] = "exhausted"]
  /\ pc' = [pc EXCEPT ![r] = "pub_done"]
  /\ UNCHANGED <<pulled, first_response, chunk, inner_send_chan, sent,
                 disconnected, on_complete_calls, config, contender>>

PullError_NoFinally(r) ==
  /\ pc[r] = "pulling"
  /\ wrapper[r] = "rest"
  /\ wrapper' = [wrapper EXCEPT ![r] = "done"]
  /\ path' = [path EXCEPT ![r] = "error"]
  /\ pc' = [pc EXCEPT ![r] = "closed"]
  /\ UNCHANGED <<gate, pulled, first_response, chunk, inner_send_chan,
                 sent, disconnected, on_complete_calls, config, contender>>

\* the engine raises during a pull: the exception leaves the loop of the
\* publisher through its finally
PullError(r) ==
  /\ pc[r] = "pulling"
  /\ wrapper[r] = "rest"
  /\ wrapper' = [wrapper EXCEPT ![r] = "done"]
  /\ path' = [path EXCEPT ![r] = "error"]
  /\ pc' = [pc EXCEPT ![r] = "pub_finally"]
  /\ UNCHANGED <<gate, pulled, first_response, chunk, inner_send_chan,
                 sent, disconnected, on_complete_calls, config, contender>>

----------------------------------------------------------------------------
(* get_event_publisher, on the event loop.                                 *)

\* MemoryObjectSendStream.send returns once the buffer has room
Room(r) == Len(inner_send_chan[r]) < ChanCap

Put(r, frame) ==
  /\ inner_send_chan' = [inner_send_chan EXCEPT ![r] = Append(@, frame)]
  /\ sent' = [sent EXCEPT ![r] = Append(@, frame)]

Send_NoBackpressure(r) ==
  /\ pc[r] = "pub_send"
  /\ Put(r, ChunkFrame(chunk[r]))
  /\ pc' = [pc EXCEPT ![r] = "pub_check"]
  /\ UNCHANGED <<gate, engine, disconnected, on_complete_calls, path, config,
                 contender>>

\* await inner_send_chan.send(dict(data=json.dumps(chunk)))
Send(r) ==
  /\ pc[r] = "pub_send"
  /\ Room(r)
  /\ Put(r, ChunkFrame(chunk[r]))
  /\ pc' = [pc EXCEPT ![r] = "pub_check"]
  /\ UNCHANGED <<gate, engine, disconnected, on_complete_calls, path, config,
                 contender>>

Check_InterruptsAlways(r) ==
  /\ pc[r] = "pub_check"
  /\ IF disconnected[r]
     THEN /\ path' = [path EXCEPT ![r] = "disconnect"]
          /\ pc' = [pc EXCEPT ![r] = "pub_finally"]
     ELSE IF llama_outer_lock
     THEN /\ path' = [path EXCEPT ![r] = "interrupt"]
          /\ pc' = [pc EXCEPT ![r] = "pub_int"]
     ELSE /\ pc' = [pc EXCEPT ![r] = "pulling"]
          /\ UNCHANGED path
  /\ UNCHANGED <<gate, engine, inner_send_chan, sent, disconnected,
                 on_complete_calls, config, contender>>

Check_IgnoresContention(r) ==
  /\ pc[r] = "pub_check"
  /\ IF disconnected[r]
     THEN /\ path' = [path EXCEPT ![r] = "disconnect"]
          /\ pc' = [pc EXCEPT ![r] = "pub_finally"]
     ELSE /\ pc' = [pc EXCEPT ![r] = "pulling"]
          /\ UNCHANGED path
  /\ UNCHANGED <<gate, engine, inner_send_chan, sent, disconnected,
                 on_complete_calls, config, contender>>

Check_IgnoresDisconnect(r) ==
  /\ pc[r] = "pub_check"
  /\ IF interrupt_requests /\ llama_outer_lock
     THEN /\ path' = [path EXCEPT ![r] = "interrupt"]
          /\ pc' = [pc EXCEPT ![r] = "pub_int"]
     ELSE /\ pc' = [pc EXCEPT ![r] = "pulling"]
          /\ UNCHANGED path
  /\ UNCHANGED <<gate, engine, inner_send_chan, sent, disconnected,
                 on_complete_calls, config, contender>>

\* if await request.is_disconnected(): raise cancelled
\* if interrupt_requests and llama_outer_lock.locked(): send [DONE], raise
\* otherwise the loop asks the worker for the next item
Check(r) ==
  /\ pc[r] = "pub_check"
  /\ IF disconnected[r]
     THEN /\ path' = [path EXCEPT ![r] = "disconnect"]
          /\ pc' = [pc EXCEPT ![r] = "pub_finally"]
     ELSE IF interrupt_requests /\ llama_outer_lock
     THEN /\ path' = [path EXCEPT ![r] = "interrupt"]
          /\ pc' = [pc EXCEPT ![r] = "pub_int"]
     ELSE /\ pc' = [pc EXCEPT ![r] = "pulling"]
          /\ UNCHANGED path
  /\ UNCHANGED <<gate, engine, inner_send_chan, sent, disconnected,
                 on_complete_calls, config, contender>>

SendInterruptDone_NoRaise(r) ==
  /\ pc[r] = "pub_int"
  /\ Room(r)
  /\ Put(r, DoneFrame)
  /\ pc' = [pc EXCEPT ![r] = "pulling"]
  /\ UNCHANGED <<gate, engine, disconnected, on_complete_calls, path, config,
                 contender>>

\* await inner_send_chan.send(dict(data="[DONE]")); raise cancelled
SendInterruptDone(r) ==
  /\ pc[r] = "pub_int"
  /\ Room(r)
  /\ Put(r, DoneFrame)
  /\ pc' = [pc EXCEPT ![r] = "pub_finally"]
  /\ UNCHANGED <<gate, engine, disconnected, on_complete_calls, path, config,
                 contender>>

\* after the loop: await inner_send_chan.send(dict(data="[DONE]"))
SendDone(r) ==
  /\ pc[r] = "pub_done"
  /\ Room(r)
  /\ Put(r, DoneFrame)
  /\ pc' = [pc EXCEPT ![r] = "pub_finally"]
  /\ UNCHANGED <<gate, engine, disconnected, on_complete_calls, path, config,
                 contender>>

\* except anyio.get_cancelled_exc_class(): once the client is gone the
\* response cancels the publisher, which takes effect at an await of a send
Cancel(r) ==
  /\ pc[r] \in {"pub_send", "pub_int", "pub_done"}
  /\ disconnected[r]
  /\ path' = [path EXCEPT ![r] = "cancelled"]
  /\ pc' = [pc EXCEPT ![r] = "pub_finally"]
  /\ UNCHANGED <<gate, engine, inner_send_chan, sent, disconnected,
                 on_complete_calls, config, contender>>

\* finally: if on_complete: on_complete()      (on_complete=exit_stack.close)
\* The publisher returns: the response ends and the session's objects
\* (iterator, channel, request) are dropped.
OnComplete(r) ==
  /\ pc[r] = "pub_finally"
  /\ on_complete_calls' = [on_complete_calls EXCEPT ![r] = @ + 1]
  /\ Close(r)
  /\ pc' = [pc EXCEPT ![r] = "closed"]
  /\ pulled' = [pulled EXCEPT ![r] = 0]
  /\ first_response' = [first_response EXCEPT ![r] = 0]
  /\ wrapper' = [wrapper EXCEPT ![r] = "none"]
  /\ chunk' = [chunk EXCEPT ![r] = 0]
  /\ inner_send_chan' = [inner_send_chan EXCEPT ![r] = <<>>]
  /\ sent' = [sent EXCEPT ![r] = <<>>]
  /\ disconnected' = [disconnected EXCEPT ![r] = FALSE]
  /\ path' = [path EXCEPT ![r] = "none"]
  /\ contender' = [contender EXCEPT ![r] = 0]
  /\ UNCHANGED config

\* The publisher's loop is between its first pull and its finally.
InSession(r) ==
  pc[r] \in {"pulling", "pub_send", "pub_check", "pub_int", "pub_done"}

\* The client of a live streaming session goes away.
Disconnect(r) ==
  /\ InSession(r)
  /\ ~disconnected[r]
  /\ disconnected' = [disconnected EXCEPT ![r] = TRUE]
  /\ UNCHANGED <<pc, gate, engine, inner_send_chan, sent, on_complete_calls,
                 path, config, contender>>

\* The response writer takes the next frame from the channel (recv_chan).
\* The publisher sees the writer only through a full buffer, so the writer's
\* receive is a step of the model where the buffer is full: every sequence
\* of blocked and unblocked sends of the publisher is still produced.
Receive(r) ==
  /\ Len(inner_send_chan[r]) = ChanCap
  /\ ~disconnected[r]
  /\ inner_send_chan' = [inner_send_chan EXCEPT ![r] = Tail(@)]
  /\ UNCHANGED <<pc, gate, engine, sent, disconnected, on_complete_calls,
                 path, config, contender>>

----------------------------------------------------------------------------

Next ==
  \E r \in Reqs :
    \/ Arrive(r)
    \/ OuterAcquire(r)
    \/ InnerAcquire(r)
    \/ OuterRelease(r)
    \/ CheckProxy(r)
    \/ Resolve(r)
    \/ Shape(r)
    \/ Generate(r)
    \/ FirstPull(r)
    \/ Respond(r)
    \/ Return(r)
    \/ Finalize(r)
    \/ PullFirst(r)
    \/ PullNext(r)
    \/ PullExhausted(r)
    \/ PullError(r)
    \/ Send(r)
    \/ Check(r)
    \/ SendInterruptDone(r)
    \/ SendDone(r)
    \/ Cancel(r)
    \/ OnComplete(r)
    \/ Disconnect(r)
    \/ Receive(r)

Spec == Init /\ [][Next]_vars

\* A publisher or worker step of request r: the worker's pull returns, a
\* send completes or is cancelled, the checks run, on_complete runs.
PublisherStep(r) ==
  \/ PullFirst(r)
  \/ PullNext(r)
  \/ PullExhausted(r)
  \/ PullError(r)
  \/ Send(r)
  \/ Check(r)
  \/ SendInterruptDone(r)
  \/ SendDone(r)
  \/ Cancel(r)
  \/ OnComplete(r)

\* Worker threads and the event loop keep running: a step of a publisher
\* that stays possible is eventually taken.  Nothing is assumed of clients
\* (Receive, Disconnect), of arrivals, or of the interpreter's finalisation.
FairSpec == Spec /\ \A r \in Reqs : WF_vars(PublisherStep(r))

----------------------------------------------------------------------------
(* create_embedding, an endpoint that receives the registry through        *)
(* Depends(get_llama_proxy): the framework enters the gate on a worker     *)
(* thread before the handler runs and closes it after the handler has      *)
(* returned or raised.                                                     *)

RECURSIVE ScanModels_AnyEntry(_, _, _)
ScanModels_AnyEntry(models, requested, i) ==
  IF i > Len(models) THEN 0
  ELSE IF requested = NoModel THEN i
  ELSE IF requested = models[i].model \/ requested = models[i].model_alias
       THEN i
  ELSE ScanModels_AnyEntry(models, requested, i + 1)

\* for model in _model_settings: the first entry that passes either test
\* breaks the loop; 0 stands for setting = None after the loop.
RECURSIVE ScanModels(_, _, _)
ScanModels(models, requested, i) ==
  IF i > Len(models) THEN 0
  ELSE IF requested = NoModel /\ models[i].embedding THEN i
  ELSE IF /\ models[i].embedding
          /\ \/ requested = models[i].model
             \/ requested = models[i].model_alias
       THEN i
  ELSE ScanModels(models, requested, i + 1)

SelectEmbedding_AliasFirst(models, requested) ==
  LET byAlias == {i \in 1..Len(models) :
                    models[i].embedding /\ requested = models[i].model_alias}
  IN IF requested # NoModel /\ byAlias # {}
     THEN CHOOSE i \in byAlias : \A j \in byAlias : i <= j
     ELSE ScanModels(models, requested, 1)

SelectEmbedding(models, requested) == ScanModels(models, requested, 1)

CreateEmbedding_NoCacheCheck(r) ==
  /\ pc[r] = "entered"
  /\ \E requested \in Names \cup {NoModel} :
       LET s == SelectEmbedding(model_settings, requested) IN
         /\ request_model' = [request_model EXCEPT ![r] = requested]
         /\ setting' = [setting EXCEPT ![r] = s]
         /\ IF s = 0
            THEN /\ pc' = [pc EXCEPT ![r] = "handler_failed"]
                 /\ UNCHANGED <<hf_embedding_model, loads>>
            ELSE IF model_settings[s].is_hf_embedding_model
            THEN LET key == model_settings[s].model IN
                   /\ hf_embedding_model' = hf_embedding_model \cup {key}
                   /\ loads' = [loads EXCEPT ![key] = @ + 1]
                   /\ pc' = [pc EXCEPT ![r] = "handler_returned"]
            ELSE /\ pc' = [pc EXCEPT ![r] = "embed_call"]
                 /\ UNCHANGED <<hf_embedding_model, loads>>
  /\ UNCHANGED <<gate, engine, stream, llama_proxy_set, server_settings,
                 contender, model_settings, auth, shutting_down, bias>>

\* The handler up to its first await: the selection loop, then either the
\* hf branch (the cached or newly constructed SentenceTransformer encodes
\* the input, all on the event loop) or llama_proxy(request.model) followed
\* by the dispatch of create_embedding to a worker.  Each library call may
\* raise.
CreateEmbedding(r) ==
  /\ pc[r] = "entered"
  /\ \E requested \in Names \cup {NoModel} :
       LET s == SelectEmbedding(model_settings, requested) IN
         /\ request_model' = [request_model EXCEPT ![r] = requested]
         /\ setting' = [setting EXCEPT ![r] = s]
         /\ IF s = 0
            THEN /\ pc' = [pc EXCEPT ![r] = "handler_failed"]
                 /\ UNCHANGED <<hf_embedding_model, loads>>
            ELSE IF model_settings[s].is_hf_embedding_model
            THEN LET key == model_settings[s].model IN
                   IF key \notin hf_embedding_model
                   THEN \/ /\ hf_embedding_model' =
                                hf_embedding_model \cup {key}
                           /\ loads' = [loads EXCEPT ![key] = @ + 1]
                           /\ \E ok \in BOOLEAN :
                                pc' = [pc EXCEPT ![r] =
                                  IF ok THEN "handler_returned"
                                        ELSE "handler_failed"]
                        \/ /\ pc' = [pc EXCEPT ![r] = "handler_failed"]
                           /\ UNCHANGED <<hf_embedding_model, loads>>
                   ELSE /\ \E ok \in BOOLEAN :
                             pc' = [pc EXCEPT ![r] =
                               IF ok THEN "handler_returned"
                                     ELSE "handler_failed"]
                        /\ UNCHANGED <<hf_embedding_model, loads>>
            ELSE /\ \E ok \in BOOLEAN :
                      pc' = [pc EXCEPT ![r] =
                        IF ok THEN "embed_call" ELSE "handler_failed"]
                 /\ UNCHANGED <<hf_embedding_model, loads>>
  /\ UNCHANGED <<gate, engine, stream, llama_proxy_set, server_settings,
                 contender, model_settings, auth, shutting_down, bias>>

\* await run_in_threadpool(llama_proxy(request.model).create_embedding, ...)
EmbedCall(r) ==
  /\ pc[r] = "embed_call"
  /\ \E ok \in BOOLEAN :
       pc' = [pc EXCEPT ![r] = IF ok THEN "handler_returned" ELSE "handler_failed"]
  /\ UNCHANGED <<gate, engine, stream, config, contender>>

\* The handler has returned or raised: the framework closes the exit stack
\* that holds the get_llama_proxy dependency, and the request is over.
DependsExit(r) ==
  /\ pc[r] \in {"handler_returned", "handler_failed"}
  /\ Close(r)
  /\ pc' = [pc EXCEPT ![r] = "closed"]
  /\ request_model' = [request_model EXCEPT ![r] = NoModel]
  /\ setting' = [setting EXCEPT ![r] = 0]
  /\ UNCHANGED <<engine, stream, llama_proxy_set, server_settings, contender,
                 model_settings, hf_embedding_model, loads, auth,
                 shutting_down, bias>>

\* No request has arrived; the server was built by create_app.
QuietOver(R) ==
  /\ llama_proxy_set = TRUE
  /\ server_settings = "plain"
  /\ llama_outer_lock = FALSE
  /\ llama_inner_lock = FALSE
  /\ pc = [r \in R |-> "idle"]
  /\ gen = [r \in R |-> "new"]
  /\ exit_stack = [r \in R |-> FALSE]
  /\ pulled = [r \in R |-> 0]
  /\ first_response = [r \in R |-> 0]
  /\ wrapper = [r \in R |-> "none"]
  /\ chunk = [r \in R |-> 0]
  /\ inner_send_chan = [r \in R |-> <<>>]
  /\ sent = [r \in R |-> <<>>]
  /\ disconnected = [r \in R |-> FALSE]
  /\ on_complete_calls = [r \in R |-> 0]
  /\ path = [r \in R |-> "none"]
  /\ releases = [r \in R |-> 0]
  /\ contender = [r \in R |-> 0]
  /\ hf_embedding_model = {}
  /\ loads = [k \in Names |-> 0]
  /\ request_model = [r \in R |-> NoModel]
  /\ setting = [r \in R |-> 0]
  /\ route = "none"
  /\ authorization = NoKey
  /\ response = "none"
  /\ shutting_down = FALSE

\* No request has set a logit bias.
BiasIdle ==
  /\ tokenizer = DefaultTokenizer
  /\ logit_bias = NoBias
  /\ logit_bias_type = "input_ids"
  /\ kwargs_logit_bias = [kind |-> "unset"]

Quiet == QuietOver(Reqs)

EmbedStep(r) ==
  \/ Arrive(r)
  \/ OuterAcquire(r)
  \/ InnerAcquire(r)
  \/ OuterRelease(r)
  \/ CreateEmbedding(r)
  \/ EmbedCall(r)
  \/ DependsExit(r)

\* One embedding request against every configured model list.
SelectInit ==
  Quiet /\ BiasIdle /\ api_key = NoKey /\ model_settings \in ModelLists
SelectNext == EmbedStep(1)
SelectSpec == SelectInit /\ [][SelectNext]_vars

\* Configured lists of embedding models named by their model only.
EmbeddingLists ==
  {l \in ModelLists :
     \A i \in 1..Len(l) : l[i].embedding /\ l[i].model_alias = NoModel}

\* Concurrent embedding requests.
EmbedInit ==
  Quiet /\ BiasIdle /\ api_key = NoKey /\ model_settings \in EmbeddingLists
EmbedNext == \E r \in Reqs : EmbedStep(r)
EmbedSpec == EmbedInit /\ [][EmbedNext]_vars

----------------------------------------------------------------------------
(* authenticate, the dependency every route of the router declares.        *)

Authenticate_AcceptsAnyBearer(key, credentials) ==
  IF key = NoKey THEN "pass"
  ELSE IF credentials # NoKey THEN "pass"
  ELSE "401"

\* if settings.api_key is None: return True
\* if authorization and authorization.credentials == settings.api_key: return
\* raise HTTPException(401)
Authenticate(key, credentials) ==
  IF key = NoKey THEN "pass"
  ELSE IF credentials # NoKey /\ credentials = key THEN "pass"
  ELSE "401"

\* dependencies=[Depends(authenticate)] in the decorator of the route
RequiresAuth(rt) == rt \in Routes

\* A request for a route arrives, with or without bearer credentials; the
\* dependencies of the route run before its handler.
HandleRequest ==
  /\ \E rt \in Routes, credentials \in Keys \cup {NoKey} :
       /\ route' = rt
       /\ authorization' = credentials
       /\ response' = IF RequiresAuth(rt)
                      THEN Authenticate(api_key, credentials)
                      ELSE "pass"
  /\ UNCHANGED <<pc, gate, engine, stream, llama_proxy_set, server_settings,
                 embed, api_key, shutting_down, bias, contender>>

AuthInit ==
  /\ Quiet
  /\ BiasIdle
  /\ api_key \in Keys \cup {NoKey}
  /\ model_settings = DefaultModels
AuthNext == HandleRequest
AuthSpec == AuthInit /\ [][AuthNext]_vars

----------------------------------------------------------------------------
(* Callers of GET /v1/models: the gate as every endpoint with              *)
(* Depends(get_llama_proxy) passes through it.                             *)

\* Number of concurrent callers of the gate.
NumCallers == 4

Callers == 1..NumCallers

\* get_models: the handler lists the loaded aliases and returns
GetModels(r) ==
  /\ pc[r] = "entered"
  /\ pc' = [pc EXCEPT ![r] = "handler_returned"]
  /\ UNCHANGED <<gate, engine, stream, config, contender>>

\* The process is told to stop while requests are in flight.
Shutdown ==
  /\ ~shutting_down
  /\ shutting_down' = TRUE
  /\ UNCHANGED <<pc, gate, engine, stream, llama_proxy_set, server_settings,
                 embed, auth, bias, contender>>

\* The steps of caller r that follow its call of acquire.
GateStep(r) ==
  \/ OuterAcquire(r)
  \/ InnerAcquire(r)
  \/ OuterRelease(r)
  \/ GetModels(r)
  \/ DependsExit(r)

GateInit ==
  /\ QuietOver(Callers)
  /\ BiasIdle
  /\ api_key = NoKey
  /\ model_settings = DefaultModels
GateNext == \E r \in Callers : Arrive(r) \/ GateStep(r)
GateSpec == GateInit /\ [][GateNext]_vars

\* The same callers, in a process that may be told to stop at any moment.
ShutdownNext == GateNext \/ Shutdown
ShutdownSpec == GateInit /\ [][ShutdownNext]_vars

\* Worker threads and the event loop keep running, and a lock that is free
\* is eventually given to a caller that keeps asking for it.
FairGateSpec == GateSpec /\ \A r \in Callers : WF_vars(GateStep(r))

----------------------------------------------------------------------------
(* _logit_bias_tokens_to_input_ids and its use by the completion handlers. *)

Store_KeepsFirst(to_bias, id, score) ==
  IF id \in DOMAIN to_bias THEN to_bias
  ELSE [x \in DOMAIN to_bias \cup {id} |->
          IF x = id THEN score ELSE to_bias[x]]

\* to_bias[str(input_id)] = score
Store(to_bias, id, score) ==
  [x \in DOMAIN to_bias \cup {id} |-> IF x = id THEN score ELSE to_bias[x]]

\* for input_id in llama.tokenize(token, add_bos=False, special=True)
RECURSIVE StoreIds(_, _, _, _)
StoreIds(to_bias, ids, score, k) ==
  IF k > Len(ids) THEN to_bias
  ELSE StoreIds(Store(to_bias, ids[k], score), ids, score, k + 1)

\* for token, score in logit_bias.items()
RECURSIVE BiasItems(_, _, _, _)
BiasItems(tok, items, i, to_bias) ==
  IF i > Len(items) THEN to_bias
  ELSE BiasItems(tok, items, i + 1,
                 StoreIds(to_bias, tok[items[i].token], items[i].score, 1))

LogitBiasTokensToInputIds(tok, items) == BiasItems(tok, items, 1, <<>>)

\* if body.logit_bias is not None: kwargs["logit_bias"] = the translation
\* when body.logit_bias_type == "tokens", body.logit_bias itself otherwise;
\* kwargs holds None from model_dump when no bias was given.
ShapeLogitBias(r) ==
  /\ pc[r] = "shape"
  /\ kwargs_logit_bias.kind = "unset"
  /\ kwargs_logit_bias' =
       IF logit_bias = NoBias THEN [kind |-> "none"]
       ELSE IF logit_bias_type = "tokens"
       THEN [kind |-> "ids",
             map |-> LogitBiasTokensToInputIds(tokenizer, logit_bias)]
       ELSE [kind |-> "same", map |-> logit_bias]
  /\ UNCHANGED <<pc, gate, engine, stream, llama_proxy_set, server_settings,
                 embed, auth, shutting_down, tokenizer, logit_bias,
                 logit_bias_type, contender>>

\* One completion request, for every logit_bias map, bias type and tokenizer.
BiasInit ==
  /\ Quiet
  /\ api_key = NoKey
  /\ model_settings = DefaultModels
  /\ tokenizer \in Tokenizers
  /\ logit_bias \in BiasMaps \cup {NoBias}
  /\ logit_bias_type \in {"input_ids", "tokens"}
  /\ kwargs_logit_bias = [kind |-> "unset"]
BiasNext ==
  \/ Arrive(1)
  \/ OuterAcquire(1)
  \/ InnerAcquire(1)
  \/ OuterRelease(1)
  \/ CheckProxy(1)
  \/ Resolve(1)
  \/ ShapeLogitBias(1)
BiasSpec == BiasInit /\ [][BiasNext]_vars

----------------------------------------------------------------------------
(* Properties.                                                             *)

HasDone(r) == \E i \in 1..Len(sent[r]) : sent[r][i] = DoneFrame

\* C1: in every reachable state at most one caller is between obtaining and
\* releasing llama_inner_lock, and the lock is held whenever one is.
C1_InnerMutex ==
  /\ Cardinality({r \in Reqs : HoldsInner(r)}) <= 1
  /\ (\E r \in Reqs : HoldsInner(r)) => llama_inner_lock

\* C1 witness: one caller holds the inner lock after the handoff and is in
\* generate, while a second holds the outer lock and waits for the inner one.
C1_Witness ==
  \E a, b \in Reqs :
    /\ gen[a] = "L86" /\ pc[a] = "generate"
    /\ gen[b] = "L82" /\ llama_outer_lock /\ llama_inner_lock

\* An engine call of request r is in progress or is the next step of r:
\* model resolution, request shaping, generate, the first-chunk pull, or a
\* pull of the publisher's worker from the engine's iterator.
EngineCall(r) ==
  \/ pc[r] \in {"resolve", "shape", "generate", "first"}
  \/ pc[r] = "pulling" /\ wrapper[r] = "rest"

\* C2: a request performs an engine call only while it holds the inner lock
\* (after the handoff), so at most one request is in an engine call.
C2_EngineUnderGate ==
  /\ \A r \in Reqs : EngineCall(r) => gen[r] = "L86" /\ llama_inner_lock
  /\ Cardinality({r \in Reqs : EngineCall(r)}) <= 1

\* C2 witness: one streaming request pulls from the engine in its worker
\* while another waits for the inner lock.
C2_Witness ==
  \E a, b \in Reqs :
    /\ pc[a] = "pulling" /\ wrapper[a] = "rest" /\ pulled[a] >= 2
    /\ gen[b] = "L82"

\* C3 (as claimed): with interrupt_requests enabled, if request b called
\* acquire while request a was streaming, then by the time b has produced its
\* first chunk a has sent its [DONE] frame (a's client connected, a's engine
\* not failing).
C3_DoneBeforeNextFirstChunk ==
  \A a, b \in Reqs :
    ( /\ interrupt_requests
      /\ contender[a] = b
      /\ ~disconnected[a]
      /\ path[a] # "error"
      /\ pulled[b] >= 1 )
    => HasDone(a)

\* C4, first part: once the client is seen disconnected the publisher begins
\* no pull (the one in progress at that moment ends, none starts).
C4_NoPullAfterDisconnect ==
  [][\A r \in Reqs :
       (disconnected[r] /\ pc[r] # "pulling") => pc'[r] # "pulling"]_vars

\* C4, second part: the generator of a request releases the inner lock at
\* most once, and has released it exactly once when its session is closed.
C4_ReleasedOnce ==
  \A r \in Reqs :
    /\ releases[r] <= 1
    /\ pc[r] = "closed" => releases[r] = 1 /\ ~HoldsInner(r)

\* C4: when the client disconnects during a streaming session, no new pull
\* starts, and the session is eventually closed with the inner lock released
\* exactly once, also when the channel is full at the time of disconnect.
C4_DisconnectReleases ==
  /\ C4_NoPullAfterDisconnect
  /\ []C4_ReleasedOnce
  /\ \A r \in Reqs : disconnected[r] ~> (pc[r] = "closed" /\ releases[r] = 1)

\* C4 witness: the client has disconnected while the channel is full and the
\* publisher is blocked in send with a chunk in hand.
C4_Witness ==
  \E r \in Reqs :
    /\ disconnected[r]
    /\ Len(inner_send_chan[r]) = ChanCap
    /\ pc[r] = "pub_send"

\* C5 (as claimed): when a non-streaming completion or chat completion has
\* returned, the request no longer holds the inner lock.
C5_ReleasedOnReturn ==
  \A r \in Reqs :
    pc[r] \in {"returned_completion", "returned_chat"} => ~HoldsInner(r)

\* C6 (as claimed): when a handler has failed after acquiring the gate, the
\* request no longer holds the inner lock.
C6_ReleasedOnFailure ==
  \A r \in Reqs : pc[r] = "failed" => ~HoldsInner(r)

\* C7: the publisher invokes on_complete exactly once on every termination
\* path, and only after its last frame: never while the loop can still send,
\* once when the publisher has returned.
C7_OnCompleteOnce ==
  \A r \in Reqs :
    /\ on_complete_calls[r] <= 1
    /\ (InSession(r) \/ pc[r] = "pub_finally") => on_complete_calls[r] = 0
    /\ pc[r] = "closed" => on_complete_calls[r] = 1
    /\ on_complete_calls[r] = 1 => pc[r] = "closed"

\* C7 witness: one publisher has returned after its on_complete ran, and
\* the next request's publisher is leaving on its iterator's error.
C7_Witness ==
  \E a, b \in Reqs :
    /\ pc[a] = "closed" /\ on_complete_calls[a] = 1
    /\ pc[b] = "pub_finally" /\ path[b] = "error"

\* Another caller is inside acquire without the inner lock: it holds the
\* outer lock, or is blocked on it behind a caller that does.
WaitsForGate(o) ==
  /\ ~HoldsInner(o)
  /\ \/ HoldsOuter(o)
     \/ gen[o] = "L79" /\ \E q \in Reqs \ {o} : HoldsOuter(q)

\* C8: for a caller that holds the inner lock after the handoff, the probe
\* llama_outer_lock.locked() is true exactly when some other caller is
\* waiting for the gate; the holder itself never makes it true.
C8_ProbeIffOtherWaits ==
  \A r \in Reqs :
    gen[r] = "L86" =>
      (llama_outer_lock <=> \E o \in Reqs \ {r} : WaitsForGate(o))

\* C8 witness: a streaming holder evaluates the probe while a second caller
\* holds the outer lock and waits for the inner one.
C8_Witness ==
  \E r, o \in Reqs :
    /\ gen[r] = "L86" /\ pc[r] = "pub_check"
    /\ gen[o] = "L82"
    /\ llama_outer_lock

\* C9: the chunk frames put on the channel are the first chunks the engine
\* produced, in production order, starting with the chunk the handler pulled:
\* the i-th frame is chunk i (or the closing [DONE]), none beyond the chunks
\* produced.
C9_ChunksInOrder ==
  \A r \in Reqs :
    /\ \A i \in 1..Len(sent[r]) :
         \/ sent[r][i] = ChunkFrame(i) /\ i <= pulled[r]
         \/ sent[r][i] = DoneFrame
    /\ Len(sent[r]) >= 1 => sent[r][1] = ChunkFrame(first_response[r])

\* C9 witness: a session has put four chunks and a [DONE] on its channel.
C9_Witness ==
  \E r \in Reqs :
    /\ Len(sent[r]) = 5
    /\ sent[r][4] = ChunkFrame(4)
    /\ sent[r][5] = DoneFrame

\* C10: at most one [DONE] frame is sent and nothing follows it; the session
\* ends with [DONE] when the iterator was exhausted or the stream was
\* interrupted by contention, and without one when it was aborted because
\* the client was gone.
C10_DoneFrame ==
  \A r \in Reqs :
    /\ \A i \in 1..Len(sent[r]) : sent[r][i] = DoneFrame => i = Len(sent[r])
    /\ (pc[r] = "pub_finally" /\ path[r] \in {"exhausted", "interrupt"})
         => HasDone(r)
    /\ path[r] \in {"disconnect", "cancelled"} => ~HasDone(r)

\* C10 witness: one session ends with [DONE] after a contention interrupt
\* while holding frames, another was aborted on disconnect without one.
C10_Witness ==
  \E a \in Reqs :
    /\ pc[a] = "pub_finally" /\ path[a] = "interrupt"
    /\ Len(sent[a]) >= 3 /\ HasDone(a)

\* C10 witness of the aborted case: a session observed the disconnect and
\* leaves without [DONE].
C10_WitnessAbort ==
  \E a \in Reqs :
    /\ pc[a] = "pub_finally" /\ path[a] = "disconnect" /\ Len(sent[a]) >= 2

\* create_embedding has run its selection loop for request r.
Selected(r) == pc[r] \in {"handler_returned", "embed_call", "handler_failed"}

\* Indices of the embedding-capable entries of the configured list.
EmbeddingCapable ==
  {i \in 1..Len(model_settings) : model_settings[i].embedding}

First(S) == CHOOSE i \in S : \A j \in S : i <= j
Last(S) == CHOOSE i \in S : \A j \in S : j <= i

Matches(m) ==
  {i \in EmbeddingCapable :
     \/ m = NoModel
     \/ m = model_settings[i].model
     \/ m = model_settings[i].model_alias}

C13_LoadedOnce ==
  /\ [](\A k \in Names :
          /\ loads[k] <= 1
          /\ k \in hf_embedding_model <=> loads[k] = 1)
  /\ [][/\ hf_embedding_model \subseteq hf_embedding_model'
        /\ \A k \in hf_embedding_model : loads'[k] = loads[k]]_vars

\* C13 witness: after an earlier request is over, a second request has been
\* served by an hf entry whose model is in the cache, constructed once.
C13_Witness ==
  \E q, r \in Reqs :
    /\ pc[q] = "closed" /\ releases[q] = 1
    /\ pc[r] = "handler_returned" /\ setting[r] # 0
    /\ model_settings[setting[r]].is_hf_embedding_model
    /\ model_settings[setting[r]].model \in hf_embedding_model
    /\ loads[model_settings[setting[r]].model] = 1
    /\ Len(model_settings) = 2
    /\ model_settings[1].model = model_settings[2].model

\* C14 (as claimed): with an API key configured, every route but the
\* introspection route answers 401 to a request whose bearer credential is
\* absent or differs from the key, and the introspection route is served
\* whatever the credential; with no key configured every request passes.
C14_AuthAsClaimed ==
  route # "none" =>
    /\ (api_key # NoKey /\ route # InfoRoute /\ authorization # api_key)
         => response = "401"
    /\ (api_key # NoKey /\ route = InfoRoute) => response = "pass"
    /\ api_key = NoKey => response = "pass"

\* Caller r is blocked inside acquire on a lock that is held.
Blocked(r) ==
  \/ gen[r] = "L79" /\ llama_outer_lock
  \/ gen[r] = "L82" /\ llama_inner_lock

\* C15 (as claimed): once the process is shutting down no caller stays
\* blocked in acquire (the call fails with GateClosed), and a request that
\* is over has released its token.
C15_GateClosedOnShutdown ==
  shutting_down =>
    /\ \A r \in DOMAIN gen : ~Blocked(r)
    /\ \A r \in DOMAIN gen :
         pc[r] = "closed" => (releases[r] = 1 /\ ~HoldsInner(r))

\* Request r is in, or about to make, a call that may block on the gate or
\* the engine: acquire, an engine call of the handlers, a pull.
BlockingCall(r) == pc[r] = "acquire" \/ EngineCall(r)

\* C16 (as claimed): every call that may block on the gate or the engine
\* runs on a worker thread, never on the event loop.
C16_BlockingOnWorker ==
  \A r \in Reqs : BlockingCall(r) => OnWorker(r)

\* C17: a caller obtains the inner lock only from a state in which it holds
\* the outer lock; the outer lock is held by at most one caller and by none
\* that has been handed the registry; at most one caller waits for the inner
\* lock, and while one does every other waiter is blocked on the outer lock.
C17_Handoff ==
  /\ [][\A r \in DOMAIN gen :
          (~HoldsInner(r) /\ HoldsInner(r)')
            => (gen[r] = "L82" /\ llama_outer_lock /\ llama_outer_lock')]_vars
  /\ [](/\ Cardinality({r \in DOMAIN gen : HoldsOuter(r)}) <= 1
        /\ llama_outer_lock <=> \E r \in DOMAIN gen : HoldsOuter(r)
        /\ \A r \in DOMAIN gen :
             pc[r] \in {"entered", "handler_returned"}
               => (gen[r] = "L86" /\ ~HoldsOuter(r))
        /\ Cardinality({r \in DOMAIN gen : gen[r] = "L82"}) <= 1
        /\ \A q, r \in DOMAIN gen :
             (gen[q] = "L82" /\ r # q /\ pc[r] = "acquire")
               => (gen[r] = "L79" /\ Blocked(r)))

\* C17 witness: one caller uses the registry, a second holds the outer lock
\* and waits for the inner one, a third and a fourth wait for the outer lock.
C17_Witness ==
  \E a, b, c, d \in DOMAIN gen :
    /\ gen[a] = "L86" /\ pc[a] = "entered"
    /\ gen[b] = "L82" /\ Blocked(b)
    /\ c # d
    /\ gen[c] = "L79" /\ Blocked(c)
    /\ gen[d] = "L79" /\ Blocked(d)

\* C18: every caller inside acquire eventually holds the inner lock, and
\* whenever a caller is inside acquire some step of the gate or of a holder
\* is possible.
C18_GateLive ==
  /\ \A r \in Callers : (gen[r] \in {"L79", "L82"}) ~> (gen[r] = "L86")
  /\ []((\E r \in Callers : gen[r] \in {"L79", "L82"})
          => \E q \in Callers : ENABLED GateStep(q))

\* C18 witness: the last caller has been handed the registry after all the
\* others went through the gate before it.
C18_Witness ==
  /\ gen[NumCallers] = "L86"
  /\ \A r \in Callers \ {NumCallers} : gen[r] = "end" /\ releases[r] = 1

\* Another caller holds the outer lock while request a, holding the inner
\* lock, streams with interrupt_requests enabled.
Contended(a) ==
  /\ interrupt_requests
  /\ gen[a] = "L86"
  /\ llama_outer_lock
  /\ pc[a] \in {"pulling", "pub_send", "pub_check", "pub_int"}

\* C19: from the moment another caller holds the outer lock, the streaming
\* request begins no pull after the one in progress or dispatched with its
\* last check: contention lasts until it releases the inner lock, and while
\* it lasts the publisher never goes back to pulling; the interrupted session
\* has sent [DONE] when it leaves, and the request releases the inner lock
\* unless its publisher stays blocked on a full channel.
C19_AtMostOnePull ==
  /\ [][\A a \in Reqs :
          (Contended(a) /\ pc[a] # "pulling")
            => (pc'[a] # "pulling" /\ pulled'[a] <= pulled[a])]_vars
  /\ [][\A a \in Reqs :
          Contended(a) => (llama_outer_lock' \/ gen'[a] # "L86")]_vars
  /\ [](\A a \in Reqs :
          (pc[a] = "pub_finally" /\ path[a] = "interrupt")
            => (HasDone(a) /\ sent[a][Len(sent[a])] = DoneFrame))
  /\ \A a \in Reqs :
       Contended(a) ~> (gen[a] = "end" \/ Len(inner_send_chan[a]) = ChanCap)

\* C19 witness: a pull of the engine is in progress for a streaming request
\* while another caller holds the outer lock.
C19_Witness ==
  \E a, b \in Reqs :
    /\ Contended(a)
    /\ pc[a] = "pulling" /\ wrapper[a] = "rest" /\ pulled[a] >= 2
    /\ gen[b] = "L82"

\* C20: the inner lock is held exactly while some request holds it; a
\* request's release count goes from 0 to 1 only, in a step where it is the
\* holder; and every step that frees the lock is the holder's.
C20_ReleasedByHolderOnce ==
  /\ [](llama_inner_lock <=> \E r \in Reqs : HoldsInner(r))
  /\ [][\A r \in Reqs :
          releases'[r] # releases[r]
            => (HoldsInner(r) /\ releases[r] = 0 /\ releases'[r] = 1)]_vars
  /\ [][(llama_inner_lock /\ ~llama_inner_lock')
          => \E r \in Reqs : HoldsInner(r) /\ gen'[r] = "end"]_vars

\* C20 witness: the wrapper of an exhausted session has closed the exit
\* stack, another request has acquired the inner lock since, and the
\* publisher of the first is about to call on_complete.
C20_Witness ==
  \E a, b \in Reqs :
    /\ pc[a] = "pub_finally" /\ path[a] = "exhausted"
    /\ gen[a] = "end" /\ releases[a] = 1
    /\ gen[b] = "L86" /\ llama_inner_lock

\* The frames of sent[r] that carry a chunk.
ChunkFrames(r) == {i \in 1..Len(sent[r]) : sent[r][i] # DoneFrame}

\* C21: the channel never buffers more than ChanCap frames and what it
\* buffers are the last frames sent, in order; a publisher whose send finds
\* the channel full stays in send (or is cancelled) and begins no pull; and
\* while the session is live every chunk the engine produced has been put on
\* the channel, except the one the publisher holds in send.
C21_Backpressure ==
  /\ [](\A r \in Reqs :
          /\ Len(inner_send_chan[r]) <= ChanCap
          /\ Len(inner_send_chan[r]) <= Len(sent[r])
          /\ inner_send_chan[r] =
               SubSeq(sent[r], Len(sent[r]) - Len(inner_send_chan[r]) + 1,
                      Len(sent[r]))
          /\ (pc[r] \in {"pulling", "pub_check"} /\ wrapper[r] = "rest")
               => Cardinality(ChunkFrames(r)) = pulled[r]
          /\ (pc[r] = "pub_send" /\ wrapper[r] = "rest")
               => (chunk[r] = pulled[r]
                   /\ Cardinality(ChunkFrames(r)) = pulled[r] - 1))
  /\ [][\A r \in Reqs :
          (pc[r] = "pub_send" /\ Len(inner_send_chan[r]) = ChanCap)
            => (pc'[r] \in {"pub_send", "pub_finally"}
                /\ pulled'[r] = pulled[r]
                /\ sent'[r] = sent[r])]_vars

\* C21 witness: the channel of a connected client is full and the publisher
\* is blocked in send with the next chunk in hand.
C21_Witness ==
  \E r \in Reqs :
    /\ ~disconnected[r]
    /\ Len(inner_send_chan[r]) = ChanCap
    /\ pc[r] = "pub_send" /\ chunk[r] = ChanCap + 1

\* C22: with interrupt_requests disabled or the server settings unset, no
\* session is interrupted; a session that leaves its loop with its client
\* connected and without an engine error has sent every chunk the engine
\* produced, in order, followed by [DONE]; and while a session streams no
\* other request holds the inner lock.
C22_NoTruncation ==
  ~interrupt_requests =>
    \A r \in Reqs :
      /\ path[r] # "interrupt" /\ pc[r] # "pub_int"
      /\ (pc[r] = "pub_finally" /\ ~disconnected[r] /\ path[r] # "error")
           => /\ path[r] = "exhausted"
              /\ Len(sent[r]) = pulled[r] + 1
              /\ \A i \in 1..pulled[r] : sent[r][i] = ChunkFrame(i)
              /\ sent[r][pulled[r] + 1] = DoneFrame
      /\ Streaming(r) => \A o \in Reqs \ {r} : ~HoldsInner(o)

\* C22 witness: a request called acquire while a session streamed with
\* interrupts disabled and holds the outer lock; the session went on and has
\* sent five chunks since.
C22_Witness ==
  \E a, b \in Reqs :
    /\ ~interrupt_requests
    /\ contender[a] = b /\ gen[b] = "L82" /\ llama_outer_lock
    /\ pc[a] = "pub_check" /\ ~disconnected[a]
    /\ Len(sent[a]) >= 5

\* The ids key i of the logit_bias map tokenizes to.
IdsOf(i) ==
  {tokenizer[logit_bias[i].token][k] :
     k \in 1..Len(tokenizer[logit_bias[i].token])}

\* The last key, in map order, whose tokenization contains id.
LastKey(id) ==
  CHOOSE i \in 1..Len(logit_bias) :
    /\ id \in IdsOf(i)
    /\ \A j \in 1..Len(logit_bias) : id \in IdsOf(j) => j <= i

\* C23: once the handler has set kwargs["logit_bias"], it is the map given
\* when logit_bias_type is not "tokens"; when it is "tokens", its keys are
\* exactly the ids the keys of the map tokenize to, and each id has the
\* score of the last key in map order whose tokenization contains it.
C23_LogitBias ==
  kwargs_logit_bias.kind # "unset" =>
    IF logit_bias = NoBias THEN kwargs_logit_bias.kind = "none"
    ELSE IF logit_bias_type # "tokens"
    THEN kwargs_logit_bias.kind = "same" /\ kwargs_logit_bias.map = logit_bias
    ELSE /\ kwargs_logit_bias.kind = "ids"
         /\ DOMAIN kwargs_logit_bias.map =
              UNION {IdsOf(i) : i \in 1..Len(logit_bias)}
         /\ \A id \in DOMAIN kwargs_logit_bias.map :
              kwargs_logit_bias.map[id] = logit_bias[LastKey(id)].score

\* C23 witness: two keys with different scores tokenize to a common id, and
\* the translation gives that id the score of the second key.
C23_Witness ==
  /\ kwargs_logit_bias.kind = "ids"
  /\ Len(logit_bias) = 2
  /\ logit_bias[1].score # logit_bias[2].score
  /\ \E id \in IdsOf(1) \cap IdsOf(2) :
       kwargs_logit_bias.map[id] = logit_bias[2].score

====
